---- MODULE Spec2Model ----
(***************************************************************************)
(* The Nexsys2 solver pipeline (src/engine/nexsys2lib.py) and the Python   *)
(* SystemBuilder wrapper (src/engine/geqslib.py) as a state machine.       *)
(*                                                                         *)
(* An equation is its source text; what the pipeline reads of it is the    *)
(* list of names that the regex LEGAL_VAR_PATTERN finds in it, in order    *)
(* and with repetitions.  The native engine behind GEQSLIB_DLL is not part *)
(* of the Python sources: its constraint rules are taken from section 4.5  *)
(* of the specification, its numerical solvers are a nondeterministic      *)
(* choice between failure and a solution.                                  *)
(*                                                                         *)
(* Not modelled: the binding of arguments at create_context_with and       *)
(* solve_equation.  As written, create_context_with(ctx_dict) lacks its    *)
(* second positional argument and solve_equation receives its keyword-only *)
(* ctx positionally, so CPython raises TypeError at the first of these     *)
(* calls, which every solve starts with.  The model takes these two calls  *)
(* to reach the engine with the arguments the call site names, which is    *)
(* the control flow the rest of the code is written for.  The binding at   *)
(* system.specify_variable, which is reached only with a declaration, is   *)
(* modelled as CPython performs it.                                        *)
(***************************************************************************)
EXTENDS Integers, Sequences, FiniteSets, TLC

VARIABLES
    eqn_pool,   \* nexsys2: `equations`, the list the two helpers mutate
    ctx_dict,   \* nexsys2: `ctx_dict`, name -> value (0: name not in the dict)
    pc,         \* position of the control flow
    i,          \* loop index of the helper that is running (1-based)
    builder,    \* the SystemBuilder of the running subsystem attempt
    sub_pool,   \* _try_solve_subsystem_of_equations: `sub_pool`
    call,       \* the helper call in progress or just returned, as observed
    last_try,   \* the latest try_constrain_with call, as observed
    result,     \* how nexsys2 ended
    declared_dict, \* nexsys2: `declared_dict`, name -> DeclaredVariable
    handed,     \* the guess and bounds the latest solver call was given
    b_freed,    \* SystemBuilder.freed of the builder used on its own
    system,     \* the System object build_system returned, if any
    heap,       \* the engine's builder and system allocations
    dropped,    \* the wrapper objects whose __del__ has run
    op,         \* the latest call on a wrapper object, as observed
    ordering,   \* NexsysPreProcessorScheduler.instance.ordering
    scheduled,  \* every schedule() call made so far, in order
    run,        \* the preprocessors the latest nexsys2 call went through
    proc,       \* the frame of one INexsys2PreProc.process call
    cmt,        \* a text and the calls of `comments` made on it
    pre,        \* a text, the two dicts and the directive preprocessors
                \* called on them
    mat,        \* the Matrix objects and the buffers of the matrix library
    ix          \* one Matrix, a pair of indices and the index operator used

pipeVars == <<eqn_pool, ctx_dict, pc, i, builder, sub_pool, call, last_try,
              result, declared_dict, handed>>

apiVars == <<b_freed, system, heap, dropped, op>>

\* the variables the pipeline does not touch
schedVars == <<ordering, scheduled, run>>

procVars == <<proc>>

cmtVars == <<cmt>>

preVars == <<pre>>

matVars == <<mat>>

ixVars == <<ix>>

\* the variables outside the pipeline and the wrapper objects
restVars == <<schedVars, procVars, cmtVars, preVars, matVars, ixVars>>

nonSchedVars ==
    <<pipeVars, apiVars, procVars, cmtVars, preVars, matVars, ixVars>>

nonProcVars ==
    <<pipeVars, apiVars, schedVars, cmtVars, preVars, matVars, ixVars>>

nonCmtVars ==
    <<pipeVars, apiVars, schedVars, procVars, preVars, matVars, ixVars>>

nonPreVars ==
    <<pipeVars, apiVars, schedVars, procVars, cmtVars, matVars, ixVars>>

nonMatVars ==
    <<pipeVars, apiVars, schedVars, procVars, cmtVars, preVars, ixVars>>

nonIxVars ==
    <<pipeVars, apiVars, schedVars, procVars, cmtVars, preVars, matVars>>

nonPipeVars == <<apiVars, restVars>>

vars == <<pipeVars, nonPipeVars>>

-----------------------------------------------------------------------------
(* Bounds and input alphabet *)

MaxPool == 3

\* try_constrain_with calls on one builder used on its own
MaxTries == 2

Values == {1, 2}

\* The lines an input text may hold, each with the names LEGAL_VAR_PATTERN
\* finds in it (re.findall, left to right, repetitions kept).
EqnVars ==
    ("x = 2"         :> <<"x">>) @@
    ("x + y = 3"     :> <<"x", "y">>) @@
    ("x - y = 1"     :> <<"x", "y">>) @@
    ("x * x = 4"     :> <<"x", "x">>) @@
    ("sin(y) = 0"    :> <<"sin", "y">>) @@
    ("z + w = 1"     :> <<"z", "w">>) @@
    ("x + z + w = 6" :> <<"x", "z", "w">>) @@
    ("2 = 2"         :> <<>>)

EqnTexts == DOMAIN EqnVars

Names == {"x", "y", "z", "w", "sin"}

Range(s) == {s[k] : k \in DOMAIN s}

RemoveAt(s, k) == [j \in 1..(Len(s) - 1) |-> IF j < k THEN s[j] ELSE s[j + 1]]

BoundedSeq(S, n) == UNION {[1..m -> S] : m \in 0..n}

-----------------------------------------------------------------------------
(* nexsys2lib.py: names of an equation *)

nexsys_findall(eqn) == EqnVars[eqn]

EmptyDict == [n \in Names |-> 0]

Keys(d) == {n \in Names : d[n] # 0}

\* an assignment that keeps the names of the solution alone
Update_Replaces(d, soln) == soln

\* dict.update
Update(d, soln) == [n \in Names |-> IF soln[n] # 0 THEN soln[n] ELSE d[n]]

\* line 131: the list comprehension over the regex matches
PyUnknowns(eqn, d) ==
    SelectSeq(nexsys_findall(eqn), LAMBDA var : var \notin Keys(d))

-----------------------------------------------------------------------------
(* The native engine, from the specification *)

WILL_NOT_CONSTRAIN == 0
WILL_CONSTRAIN == 1
WILL_OVERCONSTRAIN == 2

\* Section 3: the default Context seeds the builtins and pi, e.
DefaultSymbols == {"sin"}

\* create_context_with: the default symbols plus every key of the dict
Context(d) == DefaultSymbols \cup Keys(d)

\* Section 3, Equation.mentions
Mentions(eqn, context) == Range(nexsys_findall(eqn)) \ context

\* Section 4.4: a solve of an equation with exactly one free variable either
\* fails or yields a value for it; any other equation has no solution.
SolveEquation(eqn, context) ==
    LET M == Mentions(eqn, context) IN
    {EmptyDict} \cup
    (IF Cardinality(M) = 1
     THEN {[n \in Names |-> IF n \in M THEN v ELSE 0] : v \in Values}
     ELSE {})

\* Section 4.6: a solve of a built system fails or yields a value for each
\* of its variables.
SolveSystem(unknowns) ==
    {EmptyDict} \cup
    {[n \in Names |-> IF n \in unknowns THEN f[n] ELSE 0] :
        f \in [Names -> Values]}

\* Section 4.5, the rules of try_constrain_with.  The first three rules are
\* chained by "else"; the last one ("reject ... when the equation is entirely
\* disjoint from current unknowns") is stated beside them, and where it and
\* an accepting rule both apply the text allows either verdict.
EngineVerdicts(b, eqn) ==
    LET M == Mentions(eqn, b.context)
        N == M \ b.unknowns
    IN  IF Len(b.equations) + 1 > Cardinality(b.unknowns \cup M)
        THEN {WILL_OVERCONSTRAIN}
        ELSE (IF N = {} /\ Len(b.equations) + 1 <= Cardinality(b.unknowns)
              THEN {WILL_CONSTRAIN}
              ELSE IF N # {} THEN {WILL_CONSTRAIN} ELSE {})
             \cup
             (IF M \cap b.unknowns = {} THEN {WILL_NOT_CONSTRAIN} ELSE {})

\* Section 4.5: is_fully_constrained
EngineFullyConstrained(b) ==
    /\ Len(b.equations) = Cardinality(b.unknowns)
    /\ Len(b.equations) >= 1

-----------------------------------------------------------------------------
(* geqslib.py: SystemBuilder *)

\* `eqns` is the wrapper's Python list self.eqns; `equations`, `unknowns` and
\* `context` are the state of the engine's builder behind self.ptr.
NoBuilder == [eqns |-> <<>>, equations |-> <<>>, unknowns |-> {}, context |-> {}]

\* SystemBuilder.__init__
SystemBuilder(equation, context) ==
    [eqns      |-> <<equation>>,
     equations |-> <<equation>>,
     unknowns  |-> Mentions(equation, context),
     context   |-> context]

\* `status = c_int(...)` (lines 241, 263, 176) is a ctypes object, and c_int
\* defines no comparison of its own: `status == n` with an int n is the
\* default object comparison and is False whatever value the object holds
\* (c_int(0) == 0 is False in CPython).  Only `status.value == n` compares the
\* number.
CIntEq(status, n) == FALSE

\* SystemBuilder.try_constrain_with, `status` being the engine's answer.  The
\* engine has changed its own state by the time it answers; the wrapper then
\* runs its three `status == ...` tests, none of which can hold, and goes on
\* to the append and `return 1`.
TryConstrainWith(b, equation, status) ==
    LET accepted == [b EXCEPT !.equations = Append(@, equation),
                              !.unknowns = @ \cup Mentions(equation, b.context)]
        engine == IF status = WILL_CONSTRAIN THEN accepted ELSE b
    IN  IF CIntEq(status, WILL_NOT_CONSTRAIN)
        THEN [builder |-> engine, ret |-> 0]
        ELSE IF CIntEq(status, WILL_OVERCONSTRAIN)
        THEN [builder |-> engine, ret |-> 2]
        ELSE [builder |-> [engine EXCEPT !.eqns = Append(@, equation)],
              ret |-> 1]

\* SystemBuilder.is_fully_constrained (line 268 compares status.value, which
\* is the number)
IsFullyConstrained(b) == EngineFullyConstrained(b)

-----------------------------------------------------------------------------
(* geqslib.py: System, and the lifetime of the engine's allocations *)

\* A System object: `eqns` is the Python list build_system hands over,
\* `equations` and `variables` are what the engine built the system from.
NoSystem == [made |-> FALSE, freed |-> FALSE, eqns |-> <<>>,
             equations |-> <<>>, variables |-> {}]

\* System.__init__ followed by `sys.eqns = self.eqns` (line 287)
System(b) == [made |-> TRUE, freed |-> FALSE, eqns |-> b.eqns,
              equations |-> b.equations, variables |-> b.unknowns]

\* An allocation of the engine is "none" (not made), "live", "consumed" (given
\* up to the call that used it) or "released" (freed by free_system_builder
\* or free_system).
NoHeap == [builder |-> "none", system |-> "none"]

NoOp == [name |-> "none", ret |-> "none", stale |-> FALSE,
         before |-> NoBuilder]

\* SystemBuilder.build_system.  `maybe_system` is whether the engine's
\* build_system answered with a system (TRUE) or with a null pointer;
\* `called` is whether the engine's build_system was called at all.
BuildSystem(b, freed, maybe_system) ==
    IF ~IsFullyConstrained(b)
    THEN [ret |-> "None", freed |-> freed, system |-> NoSystem,
          called |-> FALSE]
    ELSE IF maybe_system
    THEN [ret |-> "System", freed |-> TRUE, system |-> System(b),
          called |-> TRUE]
    ELSE [ret |-> "None", freed |-> TRUE, system |-> NoSystem,
          called |-> TRUE]

\* The engine's build_system takes the builder for itself: the wrapper sets
\* freed right after the call so that __del__ does not free it again.
EngineBuildSystem(h, maybe_system) ==
    [h EXCEPT !.builder = "consumed",
              !.system = IF maybe_system THEN "live" ELSE @]

\* The engine's solve_system takes the system for itself in the same way
\* (System.__del__: "Frees the system if it was not used for a solution
\* attempt").
EngineSolveSystem(h) == [h EXCEPT !.system = "consumed"]

\* SystemBuilder.__del__ and System.__del__: free unless the flag is set
Del(h, which, freed) ==
    IF freed THEN h ELSE [h EXCEPT ![which] = "released"]

-----------------------------------------------------------------------------
(* nexsys2lib.py: NexsysPreProcessorScheduler *)

\* the classes a preprocessor is scheduled as
Kinds == {"PreProcOnce", "PreProcUntilStable"}

\* the processor functions of nexsys2preproc.py
ProcessorFns == {"comments", "const_values", "domains", "guess_values",
                 "conditionals"}

\* schedule() calls in one run of the program
MaxSched == 2

\* NexsysPreProcessorScheduler(): __new__ hands out the one instance, and
\* Python then runs __init__ on it, as on every object a class call returns;
\* __init__ assigns a new empty list whatever the instance held.
SchedulerCall(o) == <<>>

\* NexsysPreProcessorScheduler.schedule
Schedule(o, kind, processor_fn) ==
    Append(o, [kind |-> kind, fn |-> processor_fn])

NoRun == [done |-> FALSE, applied |-> <<>>]

SchedIdle ==
    /\ ordering = <<>>
    /\ scheduled = <<>>
    /\ run = NoRun

-----------------------------------------------------------------------------
(* nexsys2lib.py: PreProcUntilStable and PreProcOnce *)

\* Texts a processor function is given and returns, and the functions
\* themselves: every map of the texts to the texts.  A processor function
\* takes the two dicts as well; here it is a function of the text alone.
NumTexts == 3

Texts == 1..NumTexts

ProcessorFunctions == [Texts -> Texts]

\* applications of processor_fn counted in a frame; the count stays at this
\* value once it is reached
MaxCalls == 4

Called(n) == IF n < MaxCalls THEN n + 1 ELSE n

\* the frame of a process call on entry
Frame(kind, f, text) ==
    [kind |-> kind, f |-> f, input |-> text, system |-> text,
     new |-> text, calls |-> 0, pc |-> "call", ret |-> text]

\* the while test answering True whatever it is given
Stable_Always(new, text) == TRUE

\* PreProcUntilStable.process, line 58: the test of the while loop
Stable(new, text) == new = text

\* PreProcOnce.process, line 78
ProcessOnce(fr) ==
    [fr EXCEPT !.ret = fr.f[fr.system], !.calls = Called(@),
               !.pc = "returned"]

\* PreProcUntilStable.process, line 56
ProcessFirst(fr) ==
    [fr EXCEPT !.new = fr.f[fr.system], !.calls = Called(@), !.pc = "while"]

\* PreProcUntilStable.process, lines 58-62: one test of the while loop, then
\* its body or the return
ProcessWhile(fr) ==
    IF Stable(fr.new, fr.system)
    THEN [fr EXCEPT !.ret = fr.system, !.pc = "returned"]
    ELSE [fr EXCEPT !.system = fr.new, !.new = fr.f[fr.new],
                    !.calls = Called(@)]

NoFrame == Frame("none", [t \in Texts |-> t], 1)

ProcIdle == proc = [NoFrame EXCEPT !.pc = "off"]

-----------------------------------------------------------------------------
(* nexsys2preproc.py: comments.  A text is the sequence of its characters. *)

\* the characters of the texts: the slash, a letter and the line break
Chars == {"/", "b", "\n"}

\* characters in a text
MaxText == 9

\* the least j >= k with text[j] the last character of its line
RECURSIVE EndOfLine(_, _)
EndOfLine(text, k) ==
    IF k >= Len(text) \/ text[k + 1] = "\n" THEN k
    ELSE EndOfLine(text, k + 1)

\* nexsys_findall(r"//[^\n]*", text): the matches from position k on, left
\* to right and without overlap; each runs from two slashes to the end of
\* the line
RECURSIVE FindComments(_, _)
FindComments(text, k) ==
    IF k >= Len(text) THEN <<>>
    ELSE IF text[k] = "/" /\ text[k + 1] = "/"
    THEN LET e == EndOfLine(text, k + 1) IN
         <<SubSeq(text, k, e)>> \o FindComments(text, e + 1)
    ELSE FindComments(text, k + 1)

\* str.replace(old, "") from position k on: every occurrence of old, found
\* left to right without overlap, is left out
RECURSIVE StrRemove(_, _, _)
StrRemove(text, old, k) ==
    IF k > Len(text) THEN <<>>
    ELSE IF k + Len(old) - 1 <= Len(text)
            /\ SubSeq(text, k, k + Len(old) - 1) = old
    THEN StrRemove(text, old, k + Len(old))
    ELSE <<text[k]>> \o StrRemove(text, old, k + 1)

\* comments, lines 19-20: the for loop over the matches found in the text
\* it was called with, from the j-th match on
RECURSIVE CommentsLoop(_, _, _)
CommentsLoop(text, matches, j) ==
    IF j > Len(matches) THEN text
    ELSE CommentsLoop(StrRemove(text, matches[j], 1), matches, j + 1)

\* comments
Comments(text) == CommentsLoop(text, FindComments(text, 1), 1)

NoComments == [input |-> <<>>, system |-> <<>>, runs |-> 0]

CmtIdle == cmt = [NoComments EXCEPT !.runs = -1]

-----------------------------------------------------------------------------
(* nexsys2preproc.py: const_values, domains, guess_values, conditionals.   *)
(* Their patterns have no way to match a line break (`.` and the classes   *)
(* of LEGAL_VAR_PATTERN and LEGAL_NUM_PATTERN exclude it), so what findall *)
(* returns for a text is what it returns for each of its pieces in turn.   *)
(* A text is here a sequence of pieces, each a line or a block of lines,   *)
(* and Findall holds for every piece what re.findall returns for each of   *)
(* the four patterns under IGNORECASE: with two or more groups in the      *)
(* pattern a tuple of the groups, with one group the string of the group;  *)
(* the whole match is part of neither.                                     *)

NoMatch == [const |-> <<>>, keep |-> <<>>, guess |-> <<>>, cond |-> <<>>]

Findall ==
    ("y = x + 1"          :> NoMatch) @@
    ("const g = 10"       :> [NoMatch EXCEPT !.const = <<(<<"g", "10">>)>>]) @@
    ("keep x on [10, 20]" :>
        [NoMatch EXCEPT !.keep = <<(<<"x", "10", "20">>)>>]) @@
    ("guess 30 for x"     :> [NoMatch EXCEPT !.guess = <<(<<"30", "x">>)>>]) @@
    ("if [a < 0] -a = 5 else a = 5 end" :>
        [NoMatch EXCEPT !.cond = <<(<<"<">>)>>]) @@
    ("if [a == 0]\n-a = 5\nelse\na = 5\nend" :> NoMatch) @@
    ("if [a <= 0]\n-a = 5\nelse\na = 5\nend" :> NoMatch) @@
    ("if [a >= 0]\n-a = 5\nelse\na = 5\nend" :> NoMatch) @@
    ("if [a < 0]\n-a = 5\nelse\na = 5\nend"  :> NoMatch) @@
    ("if [a > 0]\n-a = 5\nelse\na = 5\nend"  :> NoMatch) @@
    ("if [a != 0]\n-a = 5\nelse\na = 5\nend" :> NoMatch)

Pieces == DOMAIN Findall

\* pieces in a text
MaxPieces == 2

\* float(val) of the number strings above
Float == ("10" :> 10) @@ ("20" :> 20) @@ ("30" :> 30)

\* the names the directives above declare
DeclNames == {"g", "x"}

\* DeclaredVariable: the defaults of its fields (float("-inf") and
\* float("inf") stand below and above every number of a text)
DefaultGuess == 1
NegInf == -1000
PosInf == 1000

DeclaredVariable(guess, min_val, max_val) ==
    [present |-> TRUE, guess |-> guess, min_val |-> min_val,
     max_val |-> max_val]

\* a name that is not a key of declared_dict
NotDeclared ==
    [DeclaredVariable(DefaultGuess, NegInf, PosInf) EXCEPT !.present = FALSE]

\* nexsys_findall(pattern, system) from the k-th piece on
RECURSIVE FindallIn(_, _, _)
FindallIn(pattern, text, k) ==
    IF k > Len(text) THEN <<>>
    ELSE Findall[text[k]][pattern] \o FindallIn(pattern, text, k + 1)

\* `for a, b, ... in matches`: a match is unpacked into n names, which
\* raises ValueError unless it has exactly n elements (for a string, n
\* characters)
Unpacks(match, n) == Len(match) = n

\* system.replace(whole, ""), on the pieces
Erase(text, whole) ==
    [k \in DOMAIN text |-> IF text[k] = whole THEN "" ELSE text[k]]

\* const_values, lines 91-93: the for loop from the j-th match on
RECURSIVE ConstValuesLoop(_, _, _)
ConstValuesLoop(st, matches, j) ==
    IF j > Len(matches) THEN st
    ELSE IF ~Unpacks(matches[j], 3)
    THEN [st EXCEPT !.raised = "ValueError"]
    ELSE LET whole == matches[j][1]
             const == matches[j][2]
             val   == matches[j][3]
         IN  ConstValuesLoop(
                 [st EXCEPT !.ctx_dict[const] = Float[val],
                            !.system = Erase(@, whole)],
                 matches, j + 1)

\* const_values
ConstValues(st) == ConstValuesLoop(st, FindallIn("const", st.system, 1), 1)

\* domains, lines 107-113: the for loop from the j-th match on
RECURSIVE DomainsLoop(_, _, _)
DomainsLoop(st, matches, j) ==
    IF j > Len(matches) THEN st
    ELSE IF ~Unpacks(matches[j], 4)
    THEN [st EXCEPT !.raised = "ValueError"]
    ELSE LET whole   == matches[j][1]
             var     == matches[j][2]
             min_val == matches[j][3]
             max_val == matches[j][4]
             entry   == IF st.declared_dict[var].present
                        THEN [st.declared_dict[var]
                                  EXCEPT !.min_val = Float[min_val],
                                         !.max_val = Float[max_val]]
                        ELSE DeclaredVariable(DefaultGuess, Float[min_val],
                                              Float[max_val])
         IN  DomainsLoop(
                 [st EXCEPT !.declared_dict[var] = entry,
                            !.system = Erase(@, whole)],
                 matches, j + 1)

\* domains
Domains(st) == DomainsLoop(st, FindallIn("keep", st.system, 1), 1)

\* guess_values, lines 127-132: the for loop from the j-th match on
RECURSIVE GuessValuesLoop(_, _, _)
GuessValuesLoop(st, matches, j) ==
    IF j > Len(matches) THEN st
    ELSE IF ~Unpacks(matches[j], 3)
    THEN [st EXCEPT !.raised = "ValueError"]
    ELSE LET whole == matches[j][1]
             val   == matches[j][2]
             var   == matches[j][3]
             entry == IF st.declared_dict[var].present
                      THEN [st.declared_dict[var]
                                EXCEPT !.guess = Float[val]]
                      ELSE DeclaredVariable(Float[val], NegInf, PosInf)
         IN  GuessValuesLoop(
                 [st EXCEPT !.declared_dict[var] = entry,
                            !.system = Erase(@, whole)],
                 matches, j + 1)

\* guess_values
GuessValues(st) == GuessValuesLoop(st, FindallIn("guess", st.system, 1), 1)

\* the keys of operator_code (lines 53-60) a single character can be
OperatorCodeKeys == {"<", ">"}

\* conditionals, lines 50-60: the for loop up to the look-up of the
\* operator.  Group 1 of the pattern follows a greedy `.*` and so is always
\* the last single character of <>= before the bracket closes: the string of
\* one character does not unpack into `original, operator`.  Were it two
\* characters, the second would be looked up in operator_code.  Lines 62-77,
\* the rewriting of the text, come after both and are reached by no match.
ConditionalsLoop(st, matches) ==
    IF matches = <<>> THEN st
    ELSE IF ~Unpacks(matches[1], 2)
    THEN [st EXCEPT !.raised = "ValueError"]
    ELSE IF matches[1][2] \notin OperatorCodeKeys
    THEN [st EXCEPT !.raised = "KeyError"]
    ELSE [st EXCEPT !.raised = "lines 62-77"]

\* conditionals
Conditionals(st) == ConditionalsLoop(st, FindallIn("cond", st.system, 1))

\* PreProcUntilStable(conditionals).process, as preprocessors.py schedules
\* it: conditionals is called until it returns the text it was given
RECURSIVE UntilStableConditionals(_)
UntilStableConditionals(st) ==
    LET new == Conditionals(st) IN
    IF new.raised # "none" \/ new.system = st.system THEN new
    ELSE UntilStableConditionals(new)

NoPre ==
    [input |-> <<>>, system |-> <<>>,
     ctx_dict |-> [n \in DeclNames |-> 0],
     declared_dict |-> [n \in DeclNames |-> NotDeclared],
     raised |-> "none", called |-> {}]

PreIdle == pre = [NoPre EXCEPT !.raised = "off"]

-----------------------------------------------------------------------------
(* gmatlib.py: the Matrix objects and the buffers of the matrix library.   *)
(* A buffer is what a native call that returns a matrix allocates; a       *)
(* Matrix object holds the pointer to one and the flag `malloced` that     *)
(* __del__ reads.  Object 0 is the local of the method that is running     *)
(* (`new` in __mul__): CPython drops it when the method returns.  The      *)
(* dimensions and the elements are left out, and every native call that    *)
(* returns a matrix is taken to return a new buffer.                       *)

MaxMats == 3
MaxBufs == 3

MatIds == 1..MaxMats
BufIds == 1..MaxBufs

NoMatrix == [st |-> "none", ptr |-> 0, malloced |-> FALSE]

NoMat ==
    [bufs |-> [p \in BufIds |-> "unused"],
     objs |-> [id \in 0..MaxMats |-> NoMatrix],
     op |-> "none", stale |-> FALSE]

MatIdle == mat = [NoMat EXCEPT !.op = "off"]

HasBuf(h) == \E p \in BufIds : h.bufs[p] = "unused"

\* the address the next allocating native call returns
NextBuf(h) ==
    CHOOSE p \in BufIds :
        /\ h.bufs[p] = "unused"
        /\ \A q \in BufIds : h.bufs[q] = "unused" => p <= q

\* new_double_matrix, clone_double_matrix, multiply_matrix, augment_with,
\* subset and transpose of the native library: each returns a new buffer
NativeAlloc(h) == [h EXCEPT !.bufs[NextBuf(h)] = "live"]

HasMat(h) == \E id \in MatIds : h.objs[id].st = "none"

\* the name the caller binds the next Matrix object to
NextMat(h) ==
    CHOOSE id \in MatIds :
        /\ h.objs[id].st = "none"
        /\ \A k \in MatIds : h.objs[k].st = "none" => id <= k

Live(h, id) == h.objs[id].st = "live"

\* the object is alive and the buffer it points to has not been freed
Usable(h, id) == Live(h, id) /\ h.bufs[h.objs[id].ptr] = "live"

\* Matrix.__init__: the list and the (int, int) forms allocate and set
\* malloced; the (int, int, c_void_p) form keeps malloced = False
MatrixInit(h, id, form, ptr) ==
    IF form = "ptr"
    THEN [h EXCEPT !.objs[id] =
                       [st |-> "live", ptr |-> ptr, malloced |-> FALSE]]
    ELSE [NativeAlloc(h) EXCEPT !.objs[id] =
                       [st |-> "live", ptr |-> NextBuf(h), malloced |-> TRUE]]

\* Matrix.__del__
MatrixDel(h, id) ==
    LET o == h.objs[id]
    IN  [h EXCEPT !.objs[id].st = "dropped",
                  !.bufs = IF o.malloced
                           THEN [@ EXCEPT ![o.ptr] = IF @ = "live"
                                                     THEN "freed"
                                                     ELSE "double-freed"]
                           ELSE @]

\* Matrix.clone
Clone(h, self, id) ==
    [MatrixInit(NativeAlloc(h), id, "ptr", NextBuf(h))
        EXCEPT !.objs[id].malloced = TRUE]

\* Matrix.transpose: `success != 0` compares a c_void_p with an int and is
\* always true
Transpose(h, self, id) == MatrixInit(NativeAlloc(h), id, "ptr", NextBuf(h))

\* Matrix.__mul__: kind is the type of `other`; ok is whether inplace_scale
\* reported success, scale raising MatrixScalePanic when it did not
MatrixMul(h, self, kind, id, ok) ==
    IF kind = "Matrix"
    THEN MatrixInit(NativeAlloc(h), id, "ptr", NextBuf(h))
    ELSE LET new == Clone(h, self, 0)
             res == new.objs[0].ptr
             ret == IF ok THEN MatrixInit(new, id, "ptr", res) ELSE new
         IN  [MatrixDel(ret, 0) EXCEPT !.objs[0] = NoMatrix]

\* Matrix.__or__
MatrixOr(h, self, other, id) ==
    [MatrixInit(NativeAlloc(h), id, "ptr", NextBuf(h))
        EXCEPT !.objs[id].malloced = TRUE]

\* Matrix.__getitem__ with a slice
MatrixGetitem(h, self, id) ==
    [MatrixInit(NativeAlloc(h), id, "ptr", NextBuf(h))
        EXCEPT !.objs[id].malloced = TRUE]

\* Matrix.__pow__ with "-1" or "T"
MatrixPow(h, self, other, id) ==
    IF other = "-1" THEN Clone(h, self, id) ELSE Transpose(h, self, id)

-----------------------------------------------------------------------------
(* gmatlib.py: the index operators of one Matrix, m[i, j] and              *)
(* m[i, j] = v with two ints.  What index_double_matrix and                *)
(* index_mut_double_matrix do with the indices they receive is the         *)
(* library's business: the outcome "native" says the call was made.        *)

MaxDim == 3

NoIndex ==
    [rows |-> 1, cols |-> 1, i |-> 0, j |-> 0,
     op |-> "none", outcome |-> "none", native |-> FALSE]

IxIdle == ix = [NoIndex EXCEPT !.op = "off"]

\* Matrix.__getitem__ with [int, int]: the test is `i < rows or j < cols`,
\* and when it fails the method ends without a return statement
MatrixGetitemIndex(self, i_, j_) ==
    IF i_ < self.rows \/ j_ < self.cols
    THEN [outcome |-> "native", native |-> TRUE]
    ELSE [outcome |-> "None", native |-> FALSE]

\* Matrix.__setitem__
MatrixSetitem(self, i_, j_) ==
    IF i_ >= self.rows \/ j_ >= self.cols
    THEN [outcome |-> "MatrixIndexOutOfBoundsError", native |-> FALSE]
    ELSE [outcome |-> "native", native |-> TRUE]

\* the state of the variables outside the pipeline and the wrapper objects
\* when they are not followed
RestIdleButIx == SchedIdle /\ ProcIdle /\ CmtIdle /\ PreIdle /\ MatIdle

RestIdle == RestIdleButIx /\ IxIdle

-----------------------------------------------------------------------------
(* nexsys2lib.py: the pipeline *)

NoCall == [fn |-> "none", pool |-> <<>>, ctx |-> EmptyDict, tried |-> <<>>,
           ret |-> "none"]

Enter(fn, pool, d) ==
    [fn |-> fn, pool |-> pool, ctx |-> d, tried |-> <<>>, ret |-> "running"]

NoResult == [kind |-> "none", args |-> <<>>]

NoTry == [equation |-> "", status |-> -1, ret |-> -1, before |-> NoBuilder]

\* The helpers take ctx_dict as a parameter: it is empty (nexsys2, line
\* 209) or holds the constant a preprocessor has put there, here w.
InitialDicts == {EmptyDict, [EmptyDict EXCEPT !["w"] = 2]}

\* nexsys2, line 210: `declared_dict = {}`
NoDeclarations == [n \in Names |-> NotDeclared]

DeclaredKeys(declared) == {n \in Names : declared[n].present}

\* The helpers take declared_dict as a parameter: the dicts they are run
\* with here declare none, one or both of x and w.
DeclaredDicts ==
    {[n \in Names |-> IF n \in D THEN DeclaredVariable(2, 0, 5)
                      ELSE NotDeclared] : D \in SUBSET {"x", "w"}}

\* the guess and the bounds a solver works with for one variable
Specification(info) ==
    [guess |-> info.guess, min |-> info.min_val, max |-> info.max_val]

\* Section 3, System: a variable without an entry of its own has the
\* defaults of DeclaredVariable
EngineDefaultSpec == [n \in Names |-> Specification(NotDeclared)]

\* `pool` and `ctx` are the pool and the assignment the attempt started
\* from, `answer` is what the solver returned
NoHanded ==
    [fn |-> "none", unknowns |-> {}, spec |-> EngineDefaultSpec,
     pool |-> <<>>, ctx |-> EmptyDict, answer |-> "none"]

\* `if not maybe_soln` of geqslib.py lines 79 and 197
Answer(maybe_soln) == IF maybe_soln = EmptyDict THEN "None" ELSE "Solution"

\* _try_solve_single_unknown_equation, lines 147-149: the update of the
\* assignment and the pop, which a failed attempt does not reach
SingleApply(pool, d, k, maybe_soln) ==
    IF maybe_soln # EmptyDict
    THEN [pool |-> RemoveAt(pool, k), ctx |-> Update(d, maybe_soln)]
    ELSE [pool |-> pool, ctx |-> d]

\* lines 193-196 with the pool replaced whether or not there is a solution
SubsystemApply_ClearsAnyway(pool, sp, d, maybe_soln) ==
    [pool |-> sp, ctx |-> Update(d, maybe_soln)]

\* _try_solve_subsystem_of_equations, lines 193-196
SubsystemApply(pool, sp, d, maybe_soln) ==
    IF maybe_soln # EmptyDict
    THEN [pool |-> sp, ctx |-> Update(d, maybe_soln)]
    ELSE [pool |-> pool, ctx |-> d]

\* lines 135-137: `DeclaredVariable()` unless the unknown is a key of
\* declared_dict
VarInfo(var, declared) ==
    IF var \in DeclaredKeys(declared)
    THEN declared[var]
    ELSE DeclaredVariable(DefaultGuess, NegInf, PosInf)

\* The call `system.specify_variable(var, guess, min_val, max_val)` of lines
\* 186-189 against the signature of geqslib.py lines 162-168: guess, min and
\* max are keyword-only there, and CPython raises TypeError for the three
\* extra positional arguments before the body of the method runs.
SpecifyVariableBinds == FALSE

\* lines 185-189: `for var in declared_dict`, on the specification the
\* built system starts with.  Where a call goes through, the test of its
\* status (geqslib.py line 182) compares a c_int and never raises.
SpecifyDeclared(sysspec, declared) ==
    IF DeclaredKeys(declared) = {}
    THEN [raised |-> "none", spec |-> sysspec]
    ELSE IF SpecifyVariableBinds
    THEN [raised |-> "none",
          spec |-> [n \in Names |-> IF n \in DeclaredKeys(declared)
                                    THEN Specification(declared[n])
                                    ELSE sysspec[n]]]
    ELSE [raised |-> "TypeError", spec |-> sysspec]

\* the pipeline is not running
PipeIdle ==
    /\ eqn_pool = <<>>
    /\ ctx_dict = EmptyDict
    /\ pc = "off"
    /\ i = 1
    /\ builder = NoBuilder
    /\ sub_pool = <<>>
    /\ call = NoCall
    /\ last_try = NoTry
    /\ result = NoResult
    /\ declared_dict = NoDeclarations
    /\ handed = NoHanded

\* no wrapper object is followed on its own
ApiIdle ==
    /\ b_freed = FALSE
    /\ system = NoSystem
    /\ heap = NoHeap
    /\ dropped = {}
    /\ op = NoOp

Init ==
    /\ eqn_pool \in BoundedSeq(EqnTexts, MaxPool)
    /\ ctx_dict \in InitialDicts
    /\ pc = "loop"
    /\ i = 1
    /\ builder = NoBuilder
    /\ sub_pool = <<>>
    /\ call = NoCall
    /\ last_try = NoTry
    /\ result = NoResult
    /\ declared_dict \in DeclaredDicts
    /\ handed = NoHanded
    /\ ApiIdle
    /\ RestIdle

\* nexsys2, line 220-222: the head of `while True`, which calls the
\* single-unknown helper
LoopHead ==
    /\ pc = "loop"
    /\ pc' = "single"
    /\ i' = 1
    /\ call' = Enter("single", eqn_pool, ctx_dict)
    /\ UNCHANGED <<eqn_pool, ctx_dict, builder, sub_pool, last_try, result>>
    /\ UNCHANGED <<declared_dict, handed>>
    /\ UNCHANGED nonPipeVars

\* _try_solve_single_unknown_equation, one pass of its for loop.  A return
\* of True sends nexsys2 to `continue`, a return of False to the elif.
SingleTry ==
    /\ pc = "single"
    /\ i <= Len(eqn_pool)
    /\ LET eqn == eqn_pool[i]
           unknowns == PyUnknowns(eqn, ctx_dict)
       IN  IF Len(unknowns) # 1
           THEN /\ pc' = "subsys"
                /\ call' = [call EXCEPT !.ret = "false"]
                /\ UNCHANGED <<eqn_pool, ctx_dict, i, handed>>
           ELSE \E maybe_soln \in SolveEquation(eqn, Context(ctx_dict)) :
                /\ handed' =
                      [fn |-> "solve_equation", unknowns |-> {unknowns[1]},
                       spec |-> [EngineDefaultSpec EXCEPT ![unknowns[1]] =
                          Specification(VarInfo(unknowns[1], declared_dict))],
                       pool |-> eqn_pool, ctx |-> ctx_dict,
                       answer |-> Answer(maybe_soln)]
                /\ ctx_dict' = SingleApply(eqn_pool, ctx_dict, i,
                                           maybe_soln).ctx
                /\ eqn_pool' = SingleApply(eqn_pool, ctx_dict, i,
                                           maybe_soln).pool
                /\ IF maybe_soln # EmptyDict
                   THEN /\ pc' = "loop"
                        /\ call' = [call EXCEPT !.tried = Append(@, i),
                                                !.ret = "true"]
                        /\ UNCHANGED i
                   ELSE /\ i' = i + 1
                        /\ call' = [call EXCEPT !.tried = Append(@, i)]
                        /\ UNCHANGED pc
    /\ UNCHANGED <<builder, sub_pool, last_try, result, declared_dict>>
    /\ UNCHANGED nonPipeVars

\* _try_solve_single_unknown_equation, line 153: the for loop is exhausted
SingleNone ==
    /\ pc = "single"
    /\ i > Len(eqn_pool)
    /\ pc' = "subsys"
    /\ call' = [call EXCEPT !.ret = "false"]
    /\ UNCHANGED <<eqn_pool, ctx_dict, i, builder, sub_pool, last_try, result>>
    /\ UNCHANGED <<declared_dict, handed>>
    /\ UNCHANGED nonPipeVars

\* _try_solve_subsystem_of_equations, lines 161-164: the first pass of
\* `for eqn in eqn_pool` (every pass ends in a return, so there is no second
\* one).  With an empty pool the function falls off its end and returns None.
SubsystemSeed ==
    /\ pc = "subsys"
    /\ IF Len(eqn_pool) = 0
       THEN /\ pc' = "exit"
            /\ call' = [Enter("subsys", eqn_pool, ctx_dict)
                            EXCEPT !.ret = "None"]
            /\ UNCHANGED <<builder, sub_pool, i>>
       ELSE LET eqn == eqn_pool[1] IN
            /\ builder' = SystemBuilder(eqn, Context(ctx_dict))
            /\ sub_pool' = SelectSeq(eqn_pool, LAMBDA x : x # eqn)
            /\ i' = 1
            /\ pc' = IF Len(sub_pool') = 0 THEN "test" ELSE "grow"
            /\ call' = Enter("subsys", eqn_pool, ctx_dict)
    /\ UNCHANGED <<eqn_pool, ctx_dict, last_try, result>>
    /\ UNCHANGED <<declared_dict, handed>>
    /\ UNCHANGED nonPipeVars

\* lines 167-179: one call of try_constrain_with inside the growth loops.
\* WILL_CONSTRAIN pops, sets still_learning and breaks, so the while loop
\* starts the for loop again at index 0; WILL_OVERCONSTRAIN breaks with
\* still_learning False, which ends the while loop, as does the end of the
\* for loop.
GrowTry ==
    /\ pc = "grow"
    /\ i <= Len(sub_pool)
    /\ \E status \in EngineVerdicts(builder, sub_pool[i]) :
          LET r == TryConstrainWith(builder, sub_pool[i], status) IN
          /\ builder' = r.builder
          /\ last_try' = [equation |-> sub_pool[i], status |-> status,
                          ret |-> r.ret, before |-> builder]
          /\ IF r.ret = WILL_CONSTRAIN
             THEN /\ sub_pool' = RemoveAt(sub_pool, i)
                  /\ i' = 1
                  /\ pc' = IF Len(sub_pool') = 0 THEN "test" ELSE "grow"
             ELSE IF r.ret = WILL_OVERCONSTRAIN
             THEN /\ pc' = "test"
                  /\ UNCHANGED <<sub_pool, i>>
             ELSE /\ i' = i + 1
                  /\ pc' = IF i' > Len(sub_pool) THEN "test" ELSE "grow"
                  /\ UNCHANGED sub_pool
    /\ UNCHANGED <<eqn_pool, ctx_dict, call, result>>
    /\ UNCHANGED <<declared_dict, handed>>
    /\ UNCHANGED nonPipeVars

\* lines 182-202: the test of the grown builder, the specify_variable loop,
\* the solve and the return.  An exception of the loop leaves the helper and
\* nexsys2, which has no handler.
SubsystemTest ==
    /\ pc = "test"
    /\ IF IsFullyConstrained(builder)
       THEN LET sv == SpecifyDeclared(EngineDefaultSpec, declared_dict) IN
            IF sv.raised # "none"
            THEN /\ call' = [call EXCEPT !.ret = sv.raised]
                 /\ result' = [kind |-> sv.raised, args |-> <<>>]
                 /\ pc' = "done"
                 /\ UNCHANGED <<eqn_pool, ctx_dict, handed>>
            ELSE /\ \E maybe_soln \in SolveSystem(builder.unknowns) :
                      /\ handed' = [fn |-> "solve_system",
                                    unknowns |-> builder.unknowns,
                                    spec |-> sv.spec,
                                    pool |-> eqn_pool, ctx |-> ctx_dict,
                                    answer |-> Answer(maybe_soln)]
                      /\ ctx_dict' = SubsystemApply(eqn_pool, sub_pool,
                                         ctx_dict, maybe_soln).ctx
                      /\ eqn_pool' = SubsystemApply(eqn_pool, sub_pool,
                                         ctx_dict, maybe_soln).pool
                      /\ call' = [call EXCEPT
                                     !.tried = Append(@, builder.eqns),
                                     !.ret = "true"]
                      /\ pc' = "loop"
                 /\ UNCHANGED result
       ELSE /\ call' = [call EXCEPT !.ret = "false"]
            /\ pc' = "exit"
            /\ UNCHANGED <<eqn_pool, ctx_dict, handed, result>>
    /\ UNCHANGED <<i, builder, sub_pool, last_try, declared_dict>>
    /\ UNCHANGED nonPipeVars

\* nexsys2, lines 228-234: break, then raise or return
Nexsys2Exit ==
    /\ pc = "exit"
    /\ pc' = "done"
    /\ result' = IF Len(eqn_pool) # 0
                 THEN [kind |-> "raise", args |-> <<>>]
                 ELSE [kind |-> "return", args |-> <<>>]
    /\ UNCHANGED <<eqn_pool, ctx_dict, i, builder, sub_pool, call, last_try>>
    /\ UNCHANGED <<declared_dict, handed>>
    /\ UNCHANGED nonPipeVars

Next ==
    \/ LoopHead
    \/ SingleTry
    \/ SingleNone
    \/ SubsystemSeed
    \/ GrowTry
    \/ SubsystemTest
    \/ Nexsys2Exit

Spec == Init /\ [][Next]_vars

-----------------------------------------------------------------------------------------------------------------------------------------------------
(* The wrapper objects used on their own: a builder made from any seed     *)
(* under any dict of known names, then any sequence of calls on it and on  *)
(* the System it builds, and the drop of either object.                    *)

KnownDicts == {d \in [Names -> {0, 1}] : Keys(d) \subseteq {"x", "y"}}

InitBuilder ==
    /\ eqn_pool = <<>>
    /\ ctx_dict \in KnownDicts
    /\ pc = "api"
    /\ i = 1
    /\ \E equation \in EqnTexts :
          builder = SystemBuilder(equation, Context(ctx_dict))
    /\ sub_pool = <<>>
    /\ call = NoCall
    /\ last_try = NoTry
    /\ result = NoResult
    /\ declared_dict = NoDeclarations
    /\ handed = NoHanded
    /\ b_freed = FALSE
    /\ system = NoSystem
    /\ heap = [NoHeap EXCEPT !.builder = "live"]
    /\ dropped = {}
    /\ op = NoOp
    /\ RestIdle

\* one call of SystemBuilder.try_constrain_with on a builder the engine
\* still holds
ApiTryConstrainWith ==
    /\ pc = "api"
    /\ "builder" \notin dropped
    /\ heap.builder = "live"
    /\ Len(builder.eqns) <= MaxTries
    /\ \E equation \in EqnTexts :
       \E status \in EngineVerdicts(builder, equation) :
          LET r == TryConstrainWith(builder, equation, status) IN
          /\ builder' = r.builder
          /\ last_try' = [equation |-> equation, status |-> status,
                          ret |-> r.ret, before |-> builder]
          /\ op' = [name |-> "try_constrain_with", ret |-> ToString(r.ret),
                    stale |-> FALSE, before |-> builder]
    /\ UNCHANGED <<eqn_pool, ctx_dict, pc, i, sub_pool, call, result>>
    /\ UNCHANGED <<declared_dict, handed>>
    /\ UNCHANGED <<b_freed, system, heap, dropped>>
    /\ UNCHANGED restVars

NextBuilder == ApiTryConstrainWith

SpecBuilder == InitBuilder /\ [][NextBuilder]_vars

\* one call of SystemBuilder.build_system on a builder the engine still holds
ApiBuildSystem ==
    /\ pc = "api"
    /\ "builder" \notin dropped
    /\ heap.builder = "live"
    /\ \E maybe_system \in BOOLEAN :
          LET r == BuildSystem(builder, b_freed, maybe_system) IN
          /\ b_freed' = r.freed
          /\ system' = IF r.ret = "System" THEN r.system ELSE system
          /\ heap' = IF r.called THEN EngineBuildSystem(heap, maybe_system)
                     ELSE heap
          /\ op' = [name |-> "build_system", ret |-> r.ret, stale |-> FALSE,
                    before |-> builder]
    /\ UNCHANGED <<pipeVars, dropped>>
    /\ UNCHANGED restVars

\* one call of System.specify_variable on a system the engine still holds;
\* the test of its status (line 182) compares a c_int and never raises
ApiSpecifyVariable ==
    /\ pc = "api"
    /\ system.made
    /\ "system" \notin dropped
    /\ heap.system = "live"
    /\ op' = [name |-> "specify_variable", ret |-> "None", stale |-> FALSE,
              before |-> builder]
    /\ UNCHANGED <<pipeVars, b_freed, system, heap, dropped>>
    /\ UNCHANGED restVars

\* one call of System.solve_system on a system the engine still holds
ApiSolveSystem ==
    /\ pc = "api"
    /\ system.made
    /\ "system" \notin dropped
    /\ heap.system = "live"
    /\ \E maybe_soln \in SolveSystem(system.variables) :
          op' = [name |-> "solve_system",
                 ret |-> IF maybe_soln = EmptyDict THEN "None"
                         ELSE "Solution",
                 stale |-> FALSE, before |-> builder]
    /\ heap' = EngineSolveSystem(heap)
    /\ system' = [system EXCEPT !.freed = TRUE]
    /\ UNCHANGED <<pipeVars, b_freed, dropped>>
    /\ UNCHANGED restVars

\* A call on a wrapper object whose allocation the engine no longer holds:
\* nothing in try_constrain_with, is_fully_constrained, build_system,
\* specify_variable or solve_system looks at self.freed, so self.ptr is
\* handed to the engine as it is.  What the process does from there on is
\* undefined (a crash, a made-up answer, a corrupted heap); it is not
\* followed further.
ApiStaleCall ==
    /\ pc = "api"
    /\ \E name \in {"try_constrain_with", "is_fully_constrained",
                    "build_system", "specify_variable", "solve_system"} :
          /\ IF name \in {"specify_variable", "solve_system"}
             THEN /\ system.made
                  /\ "system" \notin dropped
                  /\ heap.system # "live"
             ELSE /\ "builder" \notin dropped
                  /\ heap.builder # "live"
          /\ op' = [name |-> name, ret |-> "undefined", stale |-> TRUE,
                    before |-> builder]
    /\ pc' = "undefined"
    /\ UNCHANGED <<eqn_pool, ctx_dict, i, builder, sub_pool, call, last_try,
                   result, declared_dict, handed>>
    /\ UNCHANGED <<b_freed, system, heap, dropped>>
    /\ UNCHANGED restVars

\* the builder object goes out of use: SystemBuilder.__del__
ApiDropBuilder ==
    /\ pc = "api"
    /\ "builder" \notin dropped
    /\ dropped' = dropped \cup {"builder"}
    /\ heap' = Del(heap, "builder", b_freed)
    /\ op' = [name |-> "del builder", ret |-> "None",
              stale |-> ~b_freed /\ heap.builder # "live",
              before |-> builder]
    /\ UNCHANGED <<pipeVars, b_freed, system>>
    /\ UNCHANGED restVars

\* the System object goes out of use: System.__del__
ApiDropSystem ==
    /\ pc = "api"
    /\ system.made
    /\ "system" \notin dropped
    /\ dropped' = dropped \cup {"system"}
    /\ heap' = Del(heap, "system", system.freed)
    /\ op' = [name |-> "del system", ret |-> "None",
              stale |-> ~system.freed /\ heap.system # "live",
              before |-> builder]
    /\ UNCHANGED <<pipeVars, b_freed, system>>
    /\ UNCHANGED restVars

NextApi ==
    \/ ApiTryConstrainWith
    \/ ApiBuildSystem
    \/ ApiSpecifyVariable
    \/ ApiSolveSystem
    \/ ApiStaleCall
    \/ ApiDropBuilder
    \/ ApiDropSystem

SpecApi == InitBuilder /\ [][NextApi]_vars

-----------------------------------------------------------------------------
(* The scheduler: a program that has the scheduler instance, schedules     *)
(* preprocessors on it, obtains the instance again and calls nexsys2, in   *)
(* any order.                                                              *)

\* preprocessors.py line 13: `scheduler = NexsysPreProcessorScheduler()`
InitSched ==
    /\ PipeIdle
    /\ ApiIdle
    /\ ProcIdle
    /\ CmtIdle
    /\ PreIdle
    /\ MatIdle
    /\ IxIdle
    /\ ordering = SchedulerCall(<<>>)
    /\ scheduled = <<>>
    /\ run = NoRun

\* scheduler.schedule(kind, processor_fn) on the instance already held
SchedSchedule ==
    /\ Len(scheduled) < MaxSched
    /\ \E kind \in Kinds : \E processor_fn \in ProcessorFns :
          /\ ordering' = Schedule(ordering, kind, processor_fn)
          /\ scheduled' = Schedule(scheduled, kind, processor_fn)
    /\ UNCHANGED <<nonSchedVars, run>>

\* NexsysPreProcessorScheduler() called again anywhere in the program
SchedObtain ==
    /\ ordering' = SchedulerCall(ordering)
    /\ UNCHANGED <<nonSchedVars, scheduled, run>>

\* nexsys2, lines 212-214: the instance is obtained by a call of the class
\* and the for loop goes through its ordering
SchedNexsys2 ==
    /\ ordering' = SchedulerCall(ordering)
    /\ run' = [done |-> TRUE, applied |-> ordering']
    /\ UNCHANGED <<nonSchedVars, scheduled>>

NextSched ==
    \/ SchedSchedule
    \/ SchedObtain
    \/ SchedNexsys2

SpecSched == InitSched /\ [][NextSched]_vars

-----------------------------------------------------------------------------
(* One call of process on a preprocessor object of either kind, made with  *)
(* any processor function and any text.                                    *)

InitProc ==
    /\ PipeIdle
    /\ ApiIdle
    /\ SchedIdle
    /\ CmtIdle
    /\ PreIdle
    /\ MatIdle
    /\ IxIdle
    /\ \E kind \in Kinds : \E f \in ProcessorFunctions : \E t \in Texts :
          proc = Frame(kind, f, t)

ProcOnceCall ==
    /\ proc.pc = "call"
    /\ proc.kind = "PreProcOnce"
    /\ proc' = ProcessOnce(proc)
    /\ UNCHANGED nonProcVars

ProcUntilStableCall ==
    /\ proc.pc = "call"
    /\ proc.kind = "PreProcUntilStable"
    /\ proc' = ProcessFirst(proc)
    /\ UNCHANGED nonProcVars

ProcUntilStableWhile ==
    /\ proc.pc = "while"
    /\ proc' = ProcessWhile(proc)
    /\ UNCHANGED nonProcVars

NextProc ==
    \/ ProcOnceCall
    \/ ProcUntilStableCall
    \/ ProcUntilStableWhile

SpecProc == InitProc /\ [][NextProc]_vars

\* process runs on the calling thread, which always takes its next step
FairSpecProc == SpecProc /\ WF_vars(NextProc)

-----------------------------------------------------------------------------
(* comments called on any text, and again on what it returned *)

InitComments ==
    /\ PipeIdle
    /\ ApiIdle
    /\ SchedIdle
    /\ ProcIdle
    /\ PreIdle
    /\ MatIdle
    /\ IxIdle
    /\ \E text \in BoundedSeq(Chars, MaxText) :
          cmt = [NoComments EXCEPT !.input = text, !.system = text]

\* system = comments(system, ctx_dict, declared_dict)
CommentsCall ==
    /\ cmt.runs \in {0, 1}
    /\ cmt' = [cmt EXCEPT !.system = Comments(@), !.runs = @ + 1]
    /\ UNCHANGED nonCmtVars

NextComments == CommentsCall

SpecComments == InitComments /\ [][NextComments]_vars

-----------------------------------------------------------------------------
(* The directive preprocessors called on any text with two empty dicts,    *)
(* each at most once and in any order, until one of them raises.           *)

InitPre ==
    /\ PipeIdle
    /\ ApiIdle
    /\ SchedIdle
    /\ ProcIdle
    /\ CmtIdle
    /\ MatIdle
    /\ IxIdle
    /\ \E text \in BoundedSeq(Pieces, MaxPieces) :
          pre = [NoPre EXCEPT !.input = text, !.system = text]

PreConstValues ==
    /\ pre.raised = "none"
    /\ "const_values" \notin pre.called
    /\ pre' = [ConstValues(pre) EXCEPT !.called = @ \cup {"const_values"}]
    /\ UNCHANGED nonPreVars

PreDomains ==
    /\ pre.raised = "none"
    /\ "domains" \notin pre.called
    /\ pre' = [Domains(pre) EXCEPT !.called = @ \cup {"domains"}]
    /\ UNCHANGED nonPreVars

PreGuessValues ==
    /\ pre.raised = "none"
    /\ "guess_values" \notin pre.called
    /\ pre' = [GuessValues(pre) EXCEPT !.called = @ \cup {"guess_values"}]
    /\ UNCHANGED nonPreVars

PreConditionals ==
    /\ pre.raised = "none"
    /\ "conditionals" \notin pre.called
    /\ pre' = [UntilStableConditionals(pre)
                   EXCEPT !.called = @ \cup {"conditionals"}]
    /\ UNCHANGED nonPreVars

NextPre ==
    \/ PreConstValues
    \/ PreDomains
    \/ PreGuessValues
    \/ PreConditionals

SpecPre == InitPre /\ [][NextPre]_vars

-----------------------------------------------------------------------------
(* The Matrix objects on their own: any sequence of constructions,         *)
(* operators, methods and drops, until a method hands the library a        *)
(* buffer that has been freed.                                             *)

InitMat ==
    /\ PipeIdle
    /\ ApiIdle
    /\ SchedIdle
    /\ ProcIdle
    /\ CmtIdle
    /\ PreIdle
    /\ IxIdle
    /\ mat = NoMat

MatRoom == ~mat.stale /\ HasMat(mat) /\ HasBuf(mat)

MatNew ==
    /\ MatRoom
    /\ \E form \in {"list", "int,int"} :
          mat' = [MatrixInit(mat, NextMat(mat), form, 0) EXCEPT !.op = "new"]
    /\ UNCHANGED nonMatVars

MatClone ==
    /\ MatRoom
    /\ \E self \in MatIds :
          /\ Usable(mat, self)
          /\ mat' = [Clone(mat, self, NextMat(mat)) EXCEPT !.op = "clone"]
    /\ UNCHANGED nonMatVars

MatMul ==
    /\ MatRoom
    /\ \E self \in MatIds : \E kind \in {"Matrix", "scalar"} :
       \E other \in MatIds : \E ok \in BOOLEAN :
          /\ Usable(mat, self)
          /\ kind = "Matrix" => Usable(mat, other) /\ ok
          /\ kind = "scalar" => other = self
          /\ mat' = [MatrixMul(mat, self, kind, NextMat(mat), ok)
                        EXCEPT !.op = IF ok THEN "mul " \o kind
                                      ELSE "MatrixScalePanic"]
    /\ UNCHANGED nonMatVars

MatTranspose ==
    /\ MatRoom
    /\ \E self \in MatIds :
          /\ Usable(mat, self)
          /\ mat' = [Transpose(mat, self, NextMat(mat))
                        EXCEPT !.op = "transpose"]
    /\ UNCHANGED nonMatVars

MatOr ==
    /\ MatRoom
    /\ \E self \in MatIds : \E other \in MatIds :
          /\ Usable(mat, self)
          /\ Usable(mat, other)
          /\ mat' = [MatrixOr(mat, self, other, NextMat(mat))
                        EXCEPT !.op = "or"]
    /\ UNCHANGED nonMatVars

MatGetitem ==
    /\ MatRoom
    /\ \E self \in MatIds :
          /\ Usable(mat, self)
          /\ mat' = [MatrixGetitem(mat, self, NextMat(mat))
                        EXCEPT !.op = "subset"]
    /\ UNCHANGED nonMatVars

MatPow ==
    /\ MatRoom
    /\ \E self \in MatIds : \E other \in {"-1", "T"} :
          /\ Usable(mat, self)
          /\ mat' = [MatrixPow(mat, self, other, NextMat(mat))
                        EXCEPT !.op = "pow " \o other]
    /\ UNCHANGED nonMatVars

\* the last reference to a Matrix object goes away
MatDrop ==
    /\ ~mat.stale
    /\ \E id \in MatIds :
          /\ Live(mat, id)
          /\ mat' = [MatrixDel(mat, id) EXCEPT !.op = "del"]
    /\ UNCHANGED nonMatVars

\* any method of a Matrix object whose buffer has been freed: the library
\* reads or writes memory it has released, and nothing is known of what
\* follows
MatStaleCall ==
    /\ ~mat.stale
    /\ \E self \in MatIds :
          /\ Live(mat, self)
          /\ mat.bufs[mat.objs[self].ptr] # "live"
          /\ mat' = [mat EXCEPT !.op = "undefined", !.stale = TRUE]
    /\ UNCHANGED nonMatVars

NextMatrix ==
    \/ MatNew
    \/ MatClone
    \/ MatMul
    \/ MatTranspose
    \/ MatOr
    \/ MatGetitem
    \/ MatPow
    \/ MatDrop
    \/ MatStaleCall

SpecMat == InitMat /\ [][NextMatrix]_vars

-----------------------------------------------------------------------------
(* One index operator on any Matrix of up to MaxDim rows and columns, with *)
(* any pair of indices from 0 to MaxDim.                                   *)

InitIx ==
    /\ PipeIdle
    /\ ApiIdle
    /\ RestIdleButIx
    /\ \E rows \in 1..MaxDim : \E cols \in 1..MaxDim :
       \E i_ \in 0..MaxDim : \E j_ \in 0..MaxDim :
          ix = [NoIndex EXCEPT !.rows = rows, !.cols = cols,
                               !.i = i_, !.j = j_]

IxGetitem ==
    /\ ix.op = "none"
    /\ LET r == MatrixGetitemIndex(ix, ix.i, ix.j)
       IN  ix' = [ix EXCEPT !.op = "get", !.outcome = r.outcome,
                            !.native = r.native]
    /\ UNCHANGED nonIxVars

IxSetitem ==
    /\ ix.op = "none"
    /\ LET r == MatrixSetitem(ix, ix.i, ix.j)
       IN  ix' = [ix EXCEPT !.op = "set", !.outcome = r.outcome,
                            !.native = r.native]
    /\ UNCHANGED nonIxVars

NextIx ==
    \/ IxGetitem
    \/ IxSetitem

SpecIx == InitIx /\ [][NextIx]_vars

\* nexsys2 runs on one thread that always takes its next step.
FairSpec == Spec /\ WF_vars(Next)

-----------------------------------------------------------------------------
(* Helpers of the properties *)

Count(s, e) == Cardinality({k \in DOMAIN s : s[k] = e})

Min(S) == CHOOSE m \in S : \A n \in S : m <= n

UnionMentions(s, context) == UNION {Mentions(s[k], context) : k \in DOMAIN s}

Returned(fn) == call.fn = fn /\ call.ret \in {"true", "false"}

\* lines 167-179 as a function: every builder the growth loops can end with,
\* started at index k of sp
RECURSIVE GrowResults(_, _, _)
GrowResults(b, sp, k) ==
    IF k > Len(sp) THEN {b}
    ELSE UNION {
        LET r == TryConstrainWith(b, sp[k], status) IN
        IF r.ret = WILL_CONSTRAIN
        THEN GrowResults(r.builder, RemoveAt(sp, k), 1)
        ELSE IF r.ret = WILL_OVERCONSTRAIN THEN {b}
        ELSE GrowResults(b, sp, k + 1)
        : status \in EngineVerdicts(b, sp[k])}

\* the builders that growth from the seed pool[k] can end with
SeedResults(pool, d, k) ==
    GrowResults(SystemBuilder(pool[k], Context(d)),
                SelectSeq(pool, LAMBDA x : x # pool[k]), 1)

\* some prefix of the equations the engine accepted was fully constrained
ReachedFull(b) ==
    \E n \in 1..Len(b.equations) :
        Cardinality(UnionMentions(SubSeq(b.equations, 1, n), b.context)) = n

-----------------------------------------------------------------------------
(* C1 *)

-----------------------------------------------------------------------------
(* C2 *)

-----------------------------------------------------------------------------
(* C3 *)

-----------------------------------------------------------------------------
(* C4 *)

\* C4: a call of the single-unknown step hands the first equation of the
\* pool that has exactly one unknown to the solver, whatever stands ahead of
\* it, and reports no progress only when every such equation was tried.
\* "Exactly one unknown" is the test of line 131-132 itself, so that the
\* property speaks of the scan alone.
C4_ScansWholePool ==
    Returned("single") =>
        LET S == {k \in DOMAIN call.pool :
                      Len(PyUnknowns(call.pool[k], call.ctx)) = 1}
        IN  /\ S # {} => (call.tried # <<>> /\ call.tried[1] = Min(S))
            /\ call.ret = "false" => S \subseteq Range(call.tried)

-----------------------------------------------------------------------------
(* C5 *)

-----------------------------------------------------------------------------
(* C6 *)

\* C6: among the equations a call of the single-unknown step examined, the
\* ones handed to the solver are exactly those whose set of distinct names,
\* less the names of the assignment and of the Context, has one element.
C6_SingleUnknownIsSetOfNames ==
    Returned("single") =>
        LET examined == Len(call.tried) +
                (IF call.ret = "false" /\ Len(call.tried) < Len(call.pool)
                 THEN 1 ELSE 0)
        IN  \A k \in 1..examined :
                (k \in Range(call.tried)) <=>
                    Cardinality(Mentions(call.pool[k], Context(call.ctx))) = 1

-----------------------------------------------------------------------------
(* C7 *)

-----------------------------------------------------------------------------
(* C8 *)

\* C8: on a builder whose seed has at least one unknown, after any sequence
\* of try_constrain_with calls the equations the calls accepted (the seed and
\* every equation a call returned 1 for, which is the list self.eqns) are no
\* more than the unknowns, the unknowns being the union of the mentions of
\* the accepted equations.
C8_EquationsNeverExceedUnknowns ==
    (pc = "api" /\ Mentions(builder.eqns[1], builder.context) # {}) =>
        /\ builder.unknowns = UnionMentions(builder.eqns, builder.context)
        /\ Len(builder.eqns) <= Cardinality(builder.unknowns)

-----------------------------------------------------------------------------
(* C9 *)

\* C9: a try_constrain_with call reports WillOverconstrain exactly when one
\* more equation would exceed the unknowns joined with the mentions of the
\* equation, and a call that reports WillOverconstrain or WillNotConstrain
\* leaves the equation list and the unknowns of the builder as they were.
C9_OverconstrainExactlyWhenExceeding ==
    last_try.ret # -1 =>
        LET b == last_try.before
            M == Mentions(last_try.equation, b.context)
        IN  /\ last_try.ret = WILL_OVERCONSTRAIN <=>
                   Len(b.equations) + 1 > Cardinality(b.unknowns \cup M)
            /\ last_try.ret \in {WILL_OVERCONSTRAIN, WILL_NOT_CONSTRAIN} =>
                   /\ builder.eqns = b.eqns
                   /\ builder.equations = b.equations
                   /\ builder.unknowns = b.unknowns

-----------------------------------------------------------------------------
(* C10 *)

Disjoint(b, equation) == Mentions(equation, b.context) \cap b.unknowns = {}

\* C10: a try_constrain_with call reports WillNotConstrain only for an
\* equation whose mentions are disjoint from the unknowns of the builder,
\* every such equation is rejected and not accepted, and the decision rules
\* give exactly one verdict for the call.
C10_DisjointAlwaysRejected ==
    last_try.ret # -1 =>
        LET b == last_try.before IN
        /\ last_try.ret = WILL_NOT_CONSTRAIN => Disjoint(b, last_try.equation)
        /\ Disjoint(b, last_try.equation) => last_try.ret # WILL_CONSTRAIN
        /\ Cardinality(EngineVerdicts(b, last_try.equation)) = 1

-----------------------------------------------------------------------------
(* C11 *)

\* C11: build_system returns a System only from a fully constrained builder
\* (as many equations as unknowns, at least one); from a builder that is not
\* fully constrained it returns None and leaves the builder as it was, still
\* held by the engine and open to further try_constrain_with calls; and the
\* System it returns has as many equations as variables.
C11_BuildSystemOnlyWhenFull ==
    (op.name = "build_system" /\ ~op.stale) =>
        LET b == op.before
            full == Len(b.equations) = Cardinality(b.unknowns)
                    /\ Len(b.equations) >= 1
        IN  /\ op.ret = "System" =>
                  /\ full
                  /\ Len(system.eqns) = Cardinality(system.variables)
            /\ ~full =>
                  /\ op.ret = "None"
                  /\ builder = b
                  /\ ~b_freed
                  /\ heap.builder = "live"
                  /\ ~system.made

-----------------------------------------------------------------------------
(* C12 *)

\* C12: a call of nexsys2 goes through exactly the preprocessors scheduled
\* before it, each as the kind it was scheduled with and in the order of the
\* schedule() calls; obtaining the scheduler instance again in between
\* neither clears nor reorders them.
C12_AppliesTheSchedule ==
    run.done => run.applied = scheduled

-----------------------------------------------------------------------------
(* C13 *)

\* f applied k times to t
RECURSIVE Iterate(_, _, _)
Iterate(f, t, k) == IF k = 0 THEN t ELSE Iterate(f, f[t], k - 1)

\* C13: for every processor function f and every text on which process
\* returns, PreProcUntilStable.process returns a fixed point of f that is f
\* applied zero or more times to the input, and PreProcOnce.process returns
\* f(input) after a single call of f.
C13_UntilStableFixedPointOnceSingle ==
    proc.pc = "returned" =>
        IF proc.kind = "PreProcOnce"
        THEN /\ proc.ret = proc.f[proc.input]
             /\ proc.calls = 1
        ELSE /\ proc.f[proc.ret] = proc.ret
             /\ \E k \in 0..NumTexts : proc.ret = Iterate(proc.f, proc.input, k)

\* an until-stable call that returned its input's image under two
\* applications, found stable by a third
C13_Witness ==
    /\ proc.pc = "returned"
    /\ proc.kind = "PreProcUntilStable"
    /\ proc.calls = 3
    /\ proc.ret # proc.input
    /\ proc.ret # proc.f[proc.input]

-----------------------------------------------------------------------------
(* C14 *)

\* C14: a process call of an until-stable preprocessor always ends: it
\* returns, or it fails with PreprocessorDiverged after a bounded number of
\* applications of a function that reaches no fixed point.
C14_UntilStableEnds ==
    <>(proc.pc \in {"returned", "PreprocessorDiverged"})

-----------------------------------------------------------------------------
(* C15 *)

\* C15: what comments returns holds no `//` comment, and a second call of
\* comments on it returns it unchanged, whatever the text, a comment whose
\* characters occur again inside another line included.
C15_CommentsIdempotent ==
    cmt.runs = 1 =>
        /\ FindComments(cmt.system, 1) = <<>>
        /\ Comments(cmt.system) = cmt.system

-----------------------------------------------------------------------------
(* C16 *)

\* what the directives of the texts say
KeepDirectives ==
    ("keep x on [10, 20]" :> [var |-> "x", min_val |-> 10, max_val |-> 20])

GuessDirectives == ("guess 30 for x" :> [var |-> "x", guess |-> 30])

ConstDirectives == ("const g = 10" :> [const |-> "g", val |-> 10])

\* C16: once domains has been called on a text, every `keep v on [a, b]` of
\* the text is erased and declared[v] has min a and max b, its guess being
\* what it was (the default 1.0 if guess_values has not been called); once
\* guess_values has been called, every `guess g for v` is erased and
\* declared[v] has guess g, its min and max being what they were; so after
\* both, a name with both directives is declared {guess g, min a, max b}.
C16_DomainsAndGuessesCompose ==
    LET input == Range(pre.input)
        guessed(v) == \E p \in input \cap DOMAIN GuessDirectives :
                          GuessDirectives[p].var = v
        kept(v) == \E p \in input \cap DOMAIN KeepDirectives :
                       KeepDirectives[p].var = v
    IN  /\ "domains" \in pre.called =>
              \A p \in input \cap DOMAIN KeepDirectives :
                  LET k == KeepDirectives[p]
                      e == pre.declared_dict[k.var]
                  IN  /\ p \notin Range(pre.system)
                      /\ e.present
                      /\ e.min_val = k.min_val
                      /\ e.max_val = k.max_val
                      /\ ("guess_values" \notin pre.called \/ ~guessed(k.var))
                             => e.guess = DefaultGuess
        /\ "guess_values" \in pre.called =>
              \A p \in input \cap DOMAIN GuessDirectives :
                  LET g == GuessDirectives[p]
                      e == pre.declared_dict[g.var]
                  IN  /\ p \notin Range(pre.system)
                      /\ e.present
                      /\ e.guess = g.guess
                      /\ ("domains" \notin pre.called \/ ~kept(g.var))
                             => (e.min_val = NegInf /\ e.max_val = PosInf)

-----------------------------------------------------------------------------
(* C17 *)

\* C17: once const_values has been called on a text, every `const V = N` of
\* the text is erased from it, consts[V] is N, and every piece of the text
\* that is not such a directive stands as it was.
C17_ConstValuesRecordsAndErases ==
    "const_values" \in pre.called =>
        \A k \in DOMAIN pre.input :
            IF pre.input[k] \in DOMAIN ConstDirectives
            THEN /\ pre.system[k] = ""
                 /\ pre.ctx_dict[ConstDirectives[pre.input[k]].const]
                        = ConstDirectives[pre.input[k]].val
            ELSE pre.system[k] = pre.input[k]
                 \/ pre.called # {"const_values"}

-----------------------------------------------------------------------------
(* C18 *)

\* the `if` call each block if [ A OP B ] ... else ... end is to become
IfCalls ==
    ("if [a == 0]\n-a = 5\nelse\na = 5\nend" :>
        "if(a,1.0,0,-a-(5),a-(5)) = 0") @@
    ("if [a <= 0]\n-a = 5\nelse\na = 5\nend" :>
        "if(a,2.0,0,-a-(5),a-(5)) = 0") @@
    ("if [a >= 0]\n-a = 5\nelse\na = 5\nend" :>
        "if(a,3.0,0,-a-(5),a-(5)) = 0") @@
    ("if [a < 0]\n-a = 5\nelse\na = 5\nend" :>
        "if(a,4.0,0,-a-(5),a-(5)) = 0") @@
    ("if [a > 0]\n-a = 5\nelse\na = 5\nend" :>
        "if(a,5.0,0,-a-(5),a-(5)) = 0") @@
    ("if [a != 0]\n-a = 5\nelse\na = 5\nend" :>
        "if(a,6.0,0,-a-(5),a-(5)) = 0")

\* C18: once conditionals has been called on a text, every multi-line block
\* if [ A OP B ] ... else ... end of the text, OP being any of ==, <=, >=,
\* <, >, !=, has become the call if(A, code, B, ..., ...) = 0 with the code
\* 1..6 of its operator, and no block made conditionals raise.
C18_ConditionalsRewritesEveryOperator ==
    "conditionals" \in pre.called =>
        \A k \in DOMAIN pre.input :
            pre.input[k] \in DOMAIN IfCalls =>
                /\ pre.raised = "none"
                /\ pre.system[k] = IfCalls[pre.input[k]]

-----------------------------------------------------------------------------
(* C20 *)
(* Whatever Matrix operations have run, every buffer of the library that   *)
(* is allocated has exactly one living Matrix object that owns it, no      *)
(* buffer has been freed twice, and no living Matrix object points to a    *)
(* buffer that has been freed.                                             *)
C20_EveryBufferOwnedOnce ==
    /\ \A p \in BufIds :
          mat.bufs[p] = "live" =>
              Cardinality({id \in MatIds : /\ Live(mat, id)
                                           /\ mat.objs[id].ptr = p
                                           /\ mat.objs[id].malloced}) = 1
    /\ \A p \in BufIds : mat.bufs[p] # "double-freed"
    /\ \A id \in MatIds : Live(mat, id) => mat.bufs[mat.objs[id].ptr] = "live"

(* C21 *)
(* After m[i, j] or m[i, j] = v on a Matrix of R rows and C columns: when  *)
(* i >= R or j >= C the operator has raised an index error and the library *)
(* was not called; when i < R and j < C the call to the library was made.  *)
C21_IndexOutOfRangeFails ==
    ix.op \in {"get", "set"} =>
        /\ (ix.i >= ix.rows \/ ix.j >= ix.cols) =>
               /\ ix.outcome = "MatrixIndexOutOfBoundsError"
               /\ ~ix.native
        /\ (ix.i < ix.rows /\ ix.j < ix.cols) => ix.outcome = "native"

Ascending(S) ==
    CHOOSE f \in [1..Cardinality(S) -> S] :
        \A a, b \in 1..Cardinality(S) : a < b => f[a] < f[b]

(* When the single-unknown step has returned and several equations of its  *)
(* pool had exactly one unknown, the equations it handed to the solver are *)
(* those equations in pool order, the earliest first; and the seed of a    *)
(* subsystem step is the first equation of its pool.                       *)
C22_EarliestApplicableChosen ==
    /\ Returned("single") =>
          LET S == {k \in DOMAIN call.pool :
                        Len(PyUnknowns(call.pool[k], call.ctx)) = 1}
          IN  Cardinality(S) > 1 =>
                  /\ call.tried # <<>>
                  /\ \A n \in DOMAIN call.tried :
                         call.tried[n] = Ascending(S)[n]
    /\ (call.fn = "subsys" /\ call.pool # <<>>) =>
          builder.eqns[1] = call.pool[1]

(* C24 *)
(* After any sequence of try_constrain_with calls the list self.eqns of    *)
(* the SystemBuilder is the list of equations the engine's builder holds,  *)
(* the seed first, and the latest call returned 0, 2 or 1 as the engine    *)
(* answered WILL_NOT_CONSTRAIN, WILL_OVERCONSTRAIN or WILL_CONSTRAIN.      *)
C24_WrapperRefinesEngine ==
    /\ builder.eqns = builder.equations
    /\ last_try.ret # NoTry.ret =>
          /\ last_try.status = WILL_NOT_CONSTRAIN => last_try.ret = 0
          /\ last_try.status = WILL_OVERCONSTRAIN => last_try.ret = 2
          /\ last_try.ret = 1 => last_try.status = WILL_CONSTRAIN

RECURSIVE IsSubList(_, _)
IsSubList(a, b) ==
    IF a = <<>> THEN TRUE
    ELSE IF b = <<>> THEN FALSE
    ELSE IF Head(a) = Head(b) THEN IsSubList(Tail(a), Tail(b))
    ELSE IsSubList(a, Tail(b))

C19_HandlesReleasedOnce ==
    /\ ~op.stale
    /\ \A w \in dropped : heap[w] \in {"consumed", "released"}

====
